---------------------------- MODULE Spec2Model ----------------------------
(***************************************************************************)
(* The forwarding proxies of c2c-fixie-proxy-clean.                        *)
(*                                                                         *)
(* The repository is a pile of stand-alone iterations of one small Express *)
(* server.  Each iteration is its own program ("variant"); a behaviour of   *)
(* this model is one process running one variant under one environment,    *)
(* handling inbound requests one after the other.                          *)
(*                                                                         *)
(*   variant   source                       routes modelled                *)
(*   cjs1      src/index.cjs 1-201          POST /raw                      *)
(*   cjs2      src/index.cjs 203-318        USE  /cd                       *)
(*   js1       src/index.js 1-185           ALL  /cd/*   (cached token)    *)
(*   js2       src/index.js 187-427         ALL  /cd/*                     *)
(*   p000      src/unnamed/part_000         POST /auth/oauth2/token        *)
(*   p001      src/unnamed/part_001 125-361 ALL  /papi/*                   *)
(*   p002      src/unnamed/part_002         USE  /papi, USE /cd            *)
(*   p003      src/unnamed/part_003 1-228   ALL  /papi/*, ALL /cd/*        *)
(*   p005      src/unnamed/part_005 1-181   ALL  /cd/*   (cached token)    *)
(*                                                                         *)
(* part_001 1-123 and part_003 230-329 repeat the /papi handler of p002    *)
(* line for line and are covered by it.                                    *)
(*                                                                         *)
(* Strings are sequences of tokens.  A token is a literal piece of text    *)
(* ("/", "?", "cd", "https:", a host name ...); no token is a              *)
(* concatenation of others, so two token sequences are equal exactly when  *)
(* the strings they spell are equal.                                       *)
(***************************************************************************)
EXTENDS Integers, Sequences, FiniteSets, TLC

(***************************************************************************)
(* Bounds of the model.                                                    *)
(***************************************************************************)
\* longest remainder (path and query after the mount point) of a request URL
MaxRest == 3
\* longest credential string in a request header
MaxCred == 1
\* last instant of the clock, in units of 60 seconds
MaxNow == 2
\* most token calls of other requests in flight at once
MaxOthers == 1

Seqs(S, n) == UNION {[1..k -> S] : k \in 0..n}

(***************************************************************************)
(* JavaScript string helpers, on token sequences.                          *)
(***************************************************************************)
Drop(s, n) == SubSeq(s, n + 1, Len(s))

\* String.prototype.startsWith
startsWith(s, p) == Len(s) >= Len(p) /\ SubSeq(s, 1, Len(p)) = p

\* s.replace(/^<p>/, ""): a case-sensitive anchored literal
replacePrefix(s, p) == IF startsWith(s, p) THEN Drop(s, Len(p)) ELSE s

\* s.replace(/\/+$/, "")
RECURSIVE stripTrailingSlashes(_)
stripTrailingSlashes(s) ==
    IF s # <<>> /\ s[Len(s)] = "/"
    THEN stripTrailingSlashes(SubSeq(s, 1, Len(s) - 1))
    ELSE s

\* String.prototype.trim: the credential alphabet's only white space is " "
RECURSIVE trimStart(_)
trimStart(s) == IF s # <<>> /\ s[1] = " " THEN trimStart(Tail(s)) ELSE s

RECURSIVE trimEnd(_)
trimEnd(s) ==
    IF s # <<>> /\ s[Len(s)] = " " THEN trimEnd(SubSeq(s, 1, Len(s) - 1)) ELSE s

trim(s) == trimEnd(trimStart(s))

\* index of the first element of s that is in D, Len(s) + 1 when there is none
RECURSIVE firstIn(_, _, _)
firstIn(s, D, i) ==
    IF i > Len(s) \/ s[i] \in D THEN i ELSE firstIn(s, D, i + 1)

(***************************************************************************)
(* URLs.  An absolute URL is <<"https:", "/", "/", host tokens..., then    *)
(* the path and query>>; the authority ends at the first "/" or "?" after  *)
(* the "//".  urlHost is what the HTTP client (fetch, undici, axios)       *)
(* connects to.                                                            *)
(***************************************************************************)
Scheme == <<"https:", "/", "/">>
PapiHost == "papi.consumerdirect.io"
AuthHost == "auth.consumerdirect.io"
PapiOrigin == Scheme \o <<PapiHost>>
TokenUrl == Scheme \o <<AuthHost, "/", "oauth2", "/", "token">>
Delims == {"/", "?"}

urlHost(u) ==
    LET a == Drop(u, 3) IN SubSeq(a, 1, firstIn(a, Delims, 1) - 1)

urlPathQuery(u) ==
    LET a == Drop(u, 3) IN Drop(a, firstIn(a, Delims, 1) - 1)

\* the path of an absolute URL, without its query
urlPath(u) ==
    LET pq == urlPathQuery(u) IN SubSeq(pq, 1, firstIn(pq, {"?"}, 1) - 1)

\* req.path: the request URL up to its query string
pathOf(originalUrl) == SubSeq(originalUrl, 1, firstIn(originalUrl, {"?"}, 1) - 1)

RECURSIVE skipSlashes(_)
skipSlashes(s) == IF s # <<>> /\ s[1] = "/" THEN skipSlashes(Tail(s)) ELSE s

InvalidUrl == <<"TypeError: Invalid URL">>

(***************************************************************************)
(* new URL(rel, base).toString(), WHATWG resolution for a special scheme:  *)
(*   "//..."  scheme-relative: the authority is taken from rel (further    *)
(*            slashes are skipped); an empty authority is a TypeError;     *)
(*   "/..."   path-absolute: base's origin, rel as path and query, the     *)
(*            path of base is dropped;                                     *)
(*   "?..."   base's path with rel as query;   ""  base itself;            *)
(*   other    relative to the directory of base's path.                    *)
(* A serialised URL always has a path, "/" at least.  Dot segments and     *)
(* percent-encoding are outside the token alphabet.                        *)
(***************************************************************************)
newURL(rel, base) ==
    LET origin == Scheme \o urlHost(base)
        bpath  == IF urlPath(base) = <<>> THEN <<"/">> ELSE urlPath(base)
        slashP(p) == IF p = <<>> \/ p[1] # "/" THEN <<"/">> \o p ELSE p
        RECURSIVE dirOf(_)
        dirOf(p) == IF p = <<>> \/ p[Len(p)] = "/" THEN p
                    ELSE dirOf(SubSeq(p, 1, Len(p) - 1))
    IN  IF urlHost(base) = <<>> THEN InvalidUrl
        ELSE IF startsWith(rel, <<"/", "/">>)
        THEN LET a    == skipSlashes(rel)
                 k    == firstIn(a, Delims, 1)
                 host == SubSeq(a, 1, k - 1)
                 rest == Drop(a, k - 1)
             IN  IF host = <<>> THEN InvalidUrl
                 ELSE Scheme \o host \o slashP(rest)
        ELSE IF rel # <<>> /\ rel[1] = "/" THEN origin \o rel
        ELSE IF rel = <<>> THEN origin \o bpath
                                \o Drop(urlPathQuery(base), Len(urlPath(base)))
        ELSE IF rel[1] = "?" THEN origin \o bpath \o rel
        ELSE origin \o dirOf(bpath) \o rel

(***************************************************************************)
(* Variants, routes and the Express route table.                           *)
(***************************************************************************)
Variants == {"cjs1", "cjs2", "js1", "js2", "p000", "p001", "p002", "p003", "p005"}

\* app.get("/cd-token-preview") of the two variants with a cached token
previewRoutes == {"js1_preview", "p005_preview"}

Routes == {"raw", "cjs2_cd", "js1_cd", "js2_cd", "p000_token", "p001_papi",
           "p002_papi", "p002_cd", "p003_papi", "p003_cd", "p005_cd"}
          \cup previewRoutes

variantOf(route) ==
    CASE route = "raw"        -> "cjs1"
      [] route = "cjs2_cd"    -> "cjs2"
      [] route \in {"js1_cd", "js1_preview"} -> "js1"
      [] route = "js2_cd"     -> "js2"
      [] route = "p000_token" -> "p000"
      [] route = "p001_papi"  -> "p001"
      [] route \in {"p002_papi", "p002_cd"} -> "p002"
      [] route \in {"p003_papi", "p003_cd"} -> "p003"
      [] route \in {"p005_cd", "p005_preview"} -> "p005"

\* the path the route is registered under, without the trailing "/*"
mount(route) ==
    CASE route = "raw" -> <<"/", "raw">>
      [] route = "p000_token" -> <<"/", "auth", "/", "oauth2", "/", "token">>
      [] route \in {"p001_papi", "p002_papi", "p003_papi"} -> <<"/", "papi">>
      [] route \in previewRoutes -> <<"/", "cd-token-preview">>
      [] OTHER -> <<"/", "cd">>

\* app.all("<mount>/*"), app.use("<mount>"), app.post("<mount>"), app.get("<mount>")
routeKind(route) ==
    CASE route \in {"raw", "p000_token"} -> "post"
      [] route \in previewRoutes -> "get"
      [] route \in {"cjs2_cd", "p002_papi", "p002_cd"} -> "use"
      [] OTHER -> "all"

\* Express matches routes without regard to case (no "case sensitive routing")
lower(tok) == CASE tok = "CD" -> "cd" [] tok = "PAPI" -> "papi" [] OTHER -> tok
upper(tok) == CASE tok = "cd" -> "CD" [] tok = "papi" -> "PAPI" [] OTHER -> tok
lowerSeq(s) == [i \in 1..Len(s) |-> lower(s[i])]
upperSeq(s) == [i \in 1..Len(s) |-> upper(s[i])]

\* the router's test of a request against a route:
\*   all  /^\/cd\/(.*)\/?$/i     use  /^\/cd\/?(?=\/|$)/i     post  /^\/raw\/?$/i
matches(route, method, originalUrl) ==
    LET p == pathOf(originalUrl)
        m == mount(route)
        n == Len(m)
    IN  /\ Len(p) >= n
        /\ lowerSeq(SubSeq(p, 1, n)) = m
        /\ CASE routeKind(route) = "all"  -> Len(p) > n /\ p[n + 1] = "/"
             [] routeKind(route) = "use"  -> Len(p) = n \/ p[n + 1] = "/"
             [] routeKind(route) = "post" ->
                    /\ method = "POST"
                    /\ Drop(p, n) \in {<<>>, <<"/">>}
             [] routeKind(route) = "get" ->
                    /\ method = "GET"
                    /\ Drop(p, n) \in {<<>>, <<"/">>}

(***************************************************************************)
(* The environment (process.env), read once per behaviour.  <<>> is an     *)
(* unset or empty variable: the code tests all of them with ! or ||.       *)
(***************************************************************************)
KeyK == <<"k">>
SecretS == <<"s">>
CredChars == {"k", "s", " "}
CredVals == Seqs(CredChars, MaxCred)
\* Node's HTTP parser strips the white space around a header value
HeaderCredVals == {c \in CredVals : c = <<>> \/ (c[1] # " " /\ c[Len(c)] # " ")}

\* configured secrets: unset, set, and set with white space around the value
\* (process.env keeps the value as the deployment gave it)
KeyChoices == {<<>>, KeyK, KeyK \o <<" ">>}
SecretChoices == {<<>>, SecretS, <<" ">> \o SecretS}

BaseChoices == {<<>>, PapiOrigin, PapiOrigin \o <<"/">>, PapiOrigin \o <<"/", "v2">>}

DefaultEnv ==
    [PROXY_API_KEY |-> KeyK,
     CD_PROXY_INTERNAL_SHARED_SECRET |-> SecretS,
     CD_PAPI_BASE_URL |-> <<>>,
     CONSUMERDIRECT_BASE_URL |-> PapiOrigin,
     FIXIE_URL |-> TRUE,
     \* the value of FIXIE_URL is one the tunnel client's constructor rejects
     FIXIE_MALFORMED |-> FALSE,
     CLIENT_CREDS |-> TRUE,
     ALLOWED_ORIGINS |-> FALSE]

\* the variables a variant reads
envReads(v) ==
    CASE v = "cjs1" -> {"PROXY_API_KEY", "FIXIE_URL", "FIXIE_MALFORMED"}
      [] v = "cjs2" -> {"PROXY_API_KEY", "CD_PROXY_INTERNAL_SHARED_SECRET"}
      [] v = "js1"  -> {"CD_PROXY_INTERNAL_SHARED_SECRET", "CONSUMERDIRECT_BASE_URL",
                        "FIXIE_URL", "FIXIE_MALFORMED", "CLIENT_CREDS"}
      \* the agents of the second server of index.js are built at module
      \* level outside any try: with a rejected value the process never listens
      [] v = "js2"  -> {"PROXY_API_KEY", "CD_PROXY_INTERNAL_SHARED_SECRET",
                        "CONSUMERDIRECT_BASE_URL", "FIXIE_URL"}
      [] v = "p000" -> {"CLIENT_CREDS"}
      [] v = "p001" -> {"PROXY_API_KEY", "CD_PAPI_BASE_URL", "FIXIE_URL", "FIXIE_MALFORMED"}
      [] v = "p002" -> {"PROXY_API_KEY", "CD_PROXY_INTERNAL_SHARED_SECRET",
                        "FIXIE_URL", "FIXIE_MALFORMED"}
      [] v = "p003" -> {"PROXY_API_KEY", "CD_PROXY_INTERNAL_SHARED_SECRET",
                        "CD_PAPI_BASE_URL", "CONSUMERDIRECT_BASE_URL",
                        "FIXIE_URL", "FIXIE_MALFORMED"}
      [] v = "p005" -> {"PROXY_API_KEY", "CONSUMERDIRECT_BASE_URL",
                        "FIXIE_URL", "FIXIE_MALFORMED", "CLIENT_CREDS", "ALLOWED_ORIGINS"}

\* environments of the model: the secrets vary together, the base URLs vary
\* together, and the remaining switches vary one at a time
EnvSlices ==
    {[DefaultEnv EXCEPT !.PROXY_API_KEY = k, !.CD_PROXY_INTERNAL_SHARED_SECRET = s] :
        k \in KeyChoices, s \in SecretChoices}
    \cup {[DefaultEnv EXCEPT !.CD_PAPI_BASE_URL = a, !.CONSUMERDIRECT_BASE_URL = b] :
        a \in BaseChoices, b \in BaseChoices}
    \cup {[DefaultEnv EXCEPT !.FIXIE_URL = FALSE], [DefaultEnv EXCEPT !.FIXIE_MALFORMED = TRUE],
          [DefaultEnv EXCEPT !.CLIENT_CREDS = FALSE],
          [DefaultEnv EXCEPT !.ALLOWED_ORIGINS = TRUE]}

EnvsOf(v) ==
    {e \in EnvSlices : \A f \in DOMAIN DefaultEnv : f \notin envReads(v) => e[f] = DefaultEnv[f]}

(***************************************************************************)
(* Header maps: functions from (lower-case) header names to values.        *)
(***************************************************************************)
NoHeaders == [n \in {} |-> ""]
has(h, n) == n \in DOMAIN h
\* h[n] || d : an absent header and an empty one both take the default
orElse(h, n, d) == IF has(h, n) /\ h[n] # <<>> THEN h[n] ELSE d
pick(h, names) == [n \in DOMAIN h \cap names |-> h[n]]
without(h, names) == [n \in DOMAIN h \ names |-> h[n]]
setHdr(h, n, v) == (n :> v) @@ h

CredHeaders == {"x-proxy-api-key", "x-shared-secret", "x-cd-proxy-secret", "x-api-key"}
HopHeaders == {"host", "connection", "content-length"}

\* the headers a route accepts as the caller's credential
credOf(route) ==
    CASE route \in {"raw", "p001_papi", "p002_papi", "p003_papi"} -> {"x-proxy-api-key"}
      [] route \in {"p002_cd", "p003_cd"} -> {"x-shared-secret"}
      [] route = "cjs2_cd" -> {"x-shared-secret", "x-proxy-api-key"}
      [] route \in {"js1_cd", "js1_preview"} -> {"x-cd-proxy-secret"}
      [] route = "js2_cd" -> {"x-cd-proxy-secret", "x-proxy-api-key", "x-shared-secret"}
      [] route \in {"p005_cd", "p005_preview"} -> {"x-api-key"}
      [] route \in {"p000_token", "fallback"} -> {}

(***************************************************************************)
(* Inbound requests.                                                       *)
(*   method   req.method (Node delivers it in upper case)                  *)
(*   url      req.originalUrl: path and query                              *)
(*   hdrs     req.headers                                                  *)
(*   payload  "none", or "obj": a non-empty JSON object sent as the body   *)
(*   raw      the JSON document POST /raw reads its orders from            *)
(***************************************************************************)
Methods == {"GET", "HEAD", "POST", "OPTIONS"}
Payloads == {"none", "obj"}
RestChars == {"/", "x", "?"}
EvilOrigin == Scheme \o <<"evil.example">>

JsonCt == <<"application/json">>
TextCt == <<"text/plain">>
Utf8 == <<"; charset=", "utf-8">>

NoRaw == [method |-> "", url |-> <<>>, hasHdrs |-> FALSE, hdrs |-> NoHeaders, body |-> "null"]

UrlsOf(route) ==
    {h \o r : h \in {mount(route), upperSeq(mount(route))}, r \in Seqs(RestChars, MaxRest)}

\* every credential header of the route carrying the configured default secret
goodCreds(route) ==
    [n \in credOf(route) |->
        IF n \in {"x-shared-secret", "x-cd-proxy-secret"} THEN SecretS ELSE KeyK]

HostHdr == "host" :> <<"proxy.example">>

baseReq(route) ==
    [route   |-> route,
     method  |-> IF routeKind(route) = "post" THEN "POST" ELSE "GET",
     url     |-> IF routeKind(route) \in {"post", "get"} THEN mount(route)
                 ELSE mount(route) \o <<"/", "x">>,
     hdrs    |-> goodCreds(route) @@ HostHdr,
     payload |-> "none",
     raw     |-> IF route = "raw"
                 THEN [NoRaw EXCEPT !.method = "GET", !.url = PapiOrigin \o <<"/", "x">>]
                 ELSE NoRaw]

PassThrough ==
    [connection |-> <<"keep-alive">>, authorization |-> <<"Bearer ", "user">>,
     accept |-> <<"*/*">>] @@ ("content-length" :> <<"17">>)
     @@ ("x-cd-authorization" :> <<"Bearer ", "carrier">>)
     @@ ("accept-encoding" :> <<"gzip">>)

\* the requests that exercise the credential check
AuthSlice(route) ==
    {[baseReq(route) EXCEPT !.hdrs = c @@ HostHdr, !.method = m] :
        c \in UNION {[S -> HeaderCredVals] : S \in SUBSET credOf(route)}, m \in {"GET", "POST"}}

\* the requests that exercise the URL rewrite
UrlSlice(route) == {[baseReq(route) EXCEPT !.url = u] : u \in UrlsOf(route)}

\* the requests whose URL repeats the mount point, or has it in other letters
PrefixSlice(route) ==
    LET m == mount(route)
    IN  {[baseReq(route) EXCEPT !.url = u] :
            u \in {m \o m \o <<"/", "x">>, m \o <<"/", "x">> \o m,
                   m \o <<"/", "x", "?">> \o m, m \o m,
                   upperSeq(m) \o <<"/", "x">>, upperSeq(m) \o m \o <<"/", "x">>}}

\* the requests that exercise the body rule
BodySlice(route) ==
    {[baseReq(route) EXCEPT !.method = m, !.payload = p, !.hdrs = ct @@ @] :
        m \in Methods, p \in Payloads,
        ct \in {NoHeaders, "content-type" :> JsonCt, "content-type" :> TextCt}}

\* the requests that exercise the header rule
HdrSlice(route) ==
    {[baseReq(route) EXCEPT !.hdrs = pick(PassThrough, S) @@ @] :
        S \in SUBSET DOMAIN PassThrough}

\* the JSON documents posted to /raw
RawSlice(route) ==
    IF route # "raw" THEN {}
    ELSE {[baseReq(route) EXCEPT !.payload = "obj",
             !.hdrs = ("content-type" :> JsonCt) @@ @,
             !.raw = [method |-> m, url |-> u, hasHdrs |-> hh,
                      hdrs |-> IF hh THEN pick(PassThrough, {"connection", "authorization"})
                                          @@ ("x-proxy-api-key" :> KeyK)
                               ELSE NoHeaders,
                      body |-> b]] :
            m \in {"", "GET", "get", "POST"},
            u \in {<<>>, PapiOrigin \o <<"/", "x">>, EvilOrigin \o <<"/", "x">>},
            hh \in BOOLEAN, b \in {"null", "str"}}

Slices == {"auth", "url", "prefix", "body", "hdr", "raw"}

SliceOf(slice, route) ==
    CASE slice = "auth" -> AuthSlice(route)
      [] slice = "url" -> UrlSlice(route)
      [] slice = "prefix" -> PrefixSlice(route)
      [] slice = "body" -> BodySlice(route)
      [] slice = "hdr" -> HdrSlice(route)
      [] slice = "raw" -> RawSlice(route)

\* what Express hands to the route's handler
RequestsOf(slice, route) ==
    {r \in SliceOf(slice, route) : matches(route, r.method, r.url)}

\* the environments a slice is run under: the secrets with the credential
\* check, the base URLs with the URL rewrite, the default with everything
pairs(e, slice) ==
    \/ e = DefaultEnv
    \/ /\ e.CD_PAPI_BASE_URL = DefaultEnv.CD_PAPI_BASE_URL
       /\ e.CONSUMERDIRECT_BASE_URL = DefaultEnv.CONSUMERDIRECT_BASE_URL
       /\ slice = "auth"
    \/ /\ e.PROXY_API_KEY = KeyK /\ e.CD_PROXY_INTERNAL_SHARED_SECRET = SecretS
       /\ e.FIXIE_URL /\ e.CLIENT_CREDS
       /\ slice \in {"url", "prefix"}
    \/ e.ALLOWED_ORIGINS /\ slice = "body"

(***************************************************************************)
(* Responses written by the proxy.  status 0: nothing written yet.         *)
(***************************************************************************)
NoRes == [status |-> 0, ctype |-> <<>>, body |-> <<>>, error |-> ""]

\* res.status(s).json({ error: code, ... })
jsonRes(s, code) ==
    [status |-> s, ctype |-> JsonCt \o Utf8, body |-> <<"{error:", code, "}">>, error |-> code]

(***************************************************************************)
(* The credential checks.  A check yields                                  *)
(*   ret  whether the caller goes on (next() was called, or the value      *)
(*        returned to "if (!check(req, res)) return;" is truthy)           *)
(*   res  the response it wrote, NoRes when none                           *)
(***************************************************************************)
Pass == [ret |-> TRUE, res |-> NoRes]
Stop(r) == [ret |-> FALSE, res |-> r]

\* req.headers[n]: <<>> stands for undefined and for "", both falsy
hdr(r, n) == IF has(r.hdrs, n) THEN r.hdrs[n] ELSE <<>>

requireProxyKey_cjs1(e, r) ==
    LET key == hdr(r, "x-proxy-api-key")
    IN  IF e.PROXY_API_KEY = <<>> THEN Stop(jsonRes(500, "PROXY_API_KEY_NOT_SET_ON_SERVER"))
        ELSE IF key = <<>> \/ key # e.PROXY_API_KEY
        THEN Stop(jsonRes(401, "UNAUTHORIZED_PROXY_KEY"))
        ELSE Pass

\* unauthorized(res, reason) returns res.status(401).json(...), which is res
\* itself: an object, truthy
unauthorized(reason) == [ret |-> TRUE, res |-> jsonRes(401, reason)]

requireProxyAuth(e, r) ==
    LET shared == hdr(r, "x-shared-secret")
        key == hdr(r, "x-proxy-api-key")
        expectedShared == e.CD_PROXY_INTERNAL_SHARED_SECRET
        expectedKey == e.PROXY_API_KEY
    IN  IF expectedShared # <<>> /\ shared # <<>> /\ shared = expectedShared THEN Pass
        ELSE IF expectedKey # <<>> /\ key # <<>> /\ key = expectedKey THEN Pass
        ELSE IF shared # <<>> THEN unauthorized("INVALID_SHARED_SECRET")
        ELSE IF key # <<>> THEN unauthorized("INVALID_PROXY_KEY")
        ELSE unauthorized("MISSING_PROXY_AUTH")

requireInternalSecret(e, r) ==
    LET expected == e.CD_PROXY_INTERNAL_SHARED_SECRET
        provided == hdr(r, "x-cd-proxy-secret")
    IN  IF expected = <<>>
        THEN Stop(jsonRes(500, "Server misconfigured: CD_PROXY_INTERNAL_SHARED_SECRET not set"))
        ELSE IF provided = <<>> \/ provided # expected THEN Stop(jsonRes(401, "Unauthorized"))
        ELSE Pass

PROXY_KEY(e) ==
    IF e.CD_PROXY_INTERNAL_SHARED_SECRET # <<>> THEN e.CD_PROXY_INTERNAL_SHARED_SECRET
    ELSE e.PROXY_API_KEY

\* returns undefined (no key configured), an error object, or null
requireProxyKey_js2(e, r) ==
    LET provided ==
            IF hdr(r, "x-cd-proxy-secret") # <<>> THEN hdr(r, "x-cd-proxy-secret")
            ELSE IF hdr(r, "x-proxy-api-key") # <<>> THEN hdr(r, "x-proxy-api-key")
            ELSE hdr(r, "x-shared-secret")
    IN  IF PROXY_KEY(e) = <<>> THEN Pass
        ELSE IF provided = <<>> \/ provided # PROXY_KEY(e)
        THEN Stop(jsonRes(401, "Unauthorized (missing/invalid proxy key)"))
        ELSE Pass

requireProxyKey_p001(e, r) ==
    LET key == hdr(r, "x-proxy-api-key")
    IN  IF e.PROXY_API_KEY = <<>> THEN Stop(jsonRes(500, "PROXY_API_KEY_NOT_CONFIGURED"))
        ELSE IF key = <<>> \/ key # e.PROXY_API_KEY
        THEN Stop(jsonRes(401, "UNAUTHORIZED_PROXY_KEY"))
        ELSE Pass

requireProxyKey_p002(e, r) ==
    LET key == hdr(r, "x-proxy-api-key")
    IN  IF key = <<>> \/ key # e.PROXY_API_KEY THEN Stop(jsonRes(401, "INVALID_PROXY_KEY"))
        ELSE Pass

requireSharedSecret(e, r) ==
    LET secret == hdr(r, "x-shared-secret")
    IN  IF secret = <<>> \/ secret # e.CD_PROXY_INTERNAL_SHARED_SECRET
        THEN Stop(jsonRes(401, "INVALID_SHARED_SECRET"))
        ELSE Pass

\* the "Auth gate" of handleProxy(req, res, mode)
authGate_p003(e, r, mode) ==
    LET expected == trim(IF mode = "papi" THEN e.PROXY_API_KEY
                         ELSE e.CD_PROXY_INTERNAL_SHARED_SECRET)
        provided == trim(hdr(r, IF mode = "papi" THEN "x-proxy-api-key" ELSE "x-shared-secret"))
    IN  IF expected = <<>>
        THEN Stop(jsonRes(500, IF mode = "papi" THEN "PROXY_API_KEY_NOT_SET"
                               ELSE "CD_PROXY_INTERNAL_SHARED_SECRET_NOT_SET"))
        ELSE IF provided = <<>> \/ provided # expected
        THEN Stop(jsonRes(401, IF mode = "papi" THEN "INVALID_PROXY_KEY"
                               ELSE "INVALID_SHARED_SECRET"))
        ELSE Pass

requireApiKey(e, r) ==
    LET key == hdr(r, "x-api-key")
    IN  IF e.PROXY_API_KEY = <<>>
        THEN Stop(jsonRes(500, "Server misconfigured: PROXY_API_KEY not set"))
        ELSE IF key = <<>> \/ key # e.PROXY_API_KEY THEN Stop(jsonRes(401, "Unauthorized"))
        ELSE Pass

\* the check that guards a route
authOf(e, r) ==
    CASE r.route = "raw"       -> requireProxyKey_cjs1(e, r)
      [] r.route = "cjs2_cd"   -> requireProxyAuth(e, r)
      [] r.route \in {"js1_cd", "js1_preview"} -> requireInternalSecret(e, r)
      [] r.route = "js2_cd"    -> requireProxyKey_js2(e, r)
      [] r.route = "p000_token" -> Pass
      [] r.route = "p001_papi" -> requireProxyKey_p001(e, r)
      [] r.route = "p002_papi" -> requireProxyKey_p002(e, r)
      [] r.route = "p002_cd"   -> requireSharedSecret(e, r)
      [] r.route = "p003_papi" -> authGate_p003(e, r, "papi")
      [] r.route = "p003_cd"   -> authGate_p003(e, r, "cd")
      [] r.route \in {"p005_cd", "p005_preview"} -> requireApiKey(e, r)

(***************************************************************************)
(* req.body as the variant's body parser leaves it.  Express 4: the parser *)
(* sets req.body = {} first and replaces it only when it reads a payload   *)
(* of its type.                                                            *)
(***************************************************************************)
isJsonCt(ct) == ct # <<>> /\ ct[1] = "application/json"

\* express.json()
reqBodyJson(r) ==
    IF r.payload = "obj" /\ isJsonCt(hdr(r, "content-type")) THEN "obj" ELSE "{}"

\* express.raw({ type: "*/*" }): a Buffer for any payload with a content type
reqBodyRaw(r) ==
    IF r.payload = "obj" /\ hdr(r, "content-type") # <<>> THEN "buffer" ELSE "{}"

NoBody == [has |-> FALSE, data |-> <<>>]
\* JSON.stringify(x), also what axios sends for a plain object
jsonBody(x) == [has |-> TRUE, data |-> <<"json(", x, ")">>]
rawBody(x) == [has |-> TRUE, data |-> <<x>>]

\* a method test that forgets HEAD: with it in place of isGetOrHead, a HEAD
\* request that came with a payload is forwarded with a body
isGetOnly(m) == m = "GET"

\* ["GET", "HEAD"].includes(method), method === "GET" || method === "HEAD"
isGetOrHead(m) == m \in {"GET", "HEAD"}

\* String.prototype.toUpperCase on method names
toUpperCase(m) == IF m = "get" THEN "GET" ELSE m

(***************************************************************************)
(* The outbound call of each route: URL, method, headers and body.         *)
(***************************************************************************)
AcceptJson == <<"application/json">>
DefaultUA == <<"Credit2Credit/1.0">>

\* index.cjs pickHeaders
pickHeaders(incomingHeaders) ==
    LET h == without(incomingHeaders,
                     {"host", "connection", "content-length", "accept-encoding",
                      "x-proxy-api-key"})
    IN  IF has(h, "user-agent") THEN h ELSE setHdr(h, "user-agent", DefaultUA)

\* { accept: req.headers.accept || "application/json",
\*   "content-type": ..., authorization: ... } minus the undefined ones
passthroughHeaders(r) ==
    setHdr(pick(r.hdrs, {"content-type", "authorization"}), "accept",
           orElse(r.hdrs, "accept", AcceptJson))

\* index.js pickBearer
pickBearer(r) ==
    IF hdr(r, "x-cd-authorization") # <<>> THEN hdr(r, "x-cd-authorization")
    ELSE hdr(r, "authorization")

\* index.js buildForwardHeaders
buildForwardHeaders(r) ==
    LET h0 == ("user-agent" :> orElse(r.hdrs, "user-agent", DefaultUA))
              @@ ("accept" :> orElse(r.hdrs, "accept", AcceptJson))
        h1 == IF hdr(r, "content-type") # <<>>
              THEN setHdr(h0, "content-type", hdr(r, "content-type")) ELSE h0
    IN  IF pickBearer(r) # <<>> THEN setHdr(h1, "authorization", pickBearer(r)) ELSE h1

\* part_001 pickForwardHeaders
pickForwardHeaders(r) ==
    LET h == [n \in {m \in {"authorization", "content-type", "accept"} : hdr(r, m) # <<>>}
                |-> r.hdrs[n]]
    IN  setHdr(h, "user-agent", orElse(r.hdrs, "user-agent", DefaultUA))

\* part_003 pickBaseUrl
pickBaseUrl(e) ==
    IF trim(e.CD_PAPI_BASE_URL) # <<>> THEN trim(e.CD_PAPI_BASE_URL)
    ELSE IF trim(e.CONSUMERDIRECT_BASE_URL) # <<>> THEN trim(e.CONSUMERDIRECT_BASE_URL)
    ELSE PapiOrigin

\* the configured base URL of a route, before any normalisation
baseUrlOf(e, route) ==
    CASE route \in {"js1_cd", "p005_cd"} -> e.CONSUMERDIRECT_BASE_URL
      [] route = "js2_cd" ->
            IF e.CONSUMERDIRECT_BASE_URL # <<>> THEN e.CONSUMERDIRECT_BASE_URL ELSE PapiOrigin
      [] route = "p001_papi" ->
            IF e.CD_PAPI_BASE_URL # <<>> THEN e.CD_PAPI_BASE_URL ELSE PapiOrigin
      [] route \in {"p003_papi", "p003_cd"} -> pickBaseUrl(e)
      [] route = "p000_token" -> TokenUrl
      [] OTHER -> PapiOrigin

\* the URL handed to the HTTP client
targetUrl(e, r) ==
    LET m == mount(r.route)
        b == baseUrlOf(e, r.route)
    IN  CASE r.route = "raw" -> r.raw.url
          [] r.route = "p000_token" -> TokenUrl
          [] r.route \in {"js1_cd", "p005_cd"} -> newURL(replacePrefix(r.url, m), b)
          [] r.route \in {"js2_cd", "cjs2_cd", "p002_papi", "p002_cd"} ->
                b \o replacePrefix(r.url, m)
          [] r.route = "p001_papi" -> stripTrailingSlashes(b) \o replacePrefix(r.url, m)
          [] r.route \in {"p003_papi", "p003_cd"} ->
                stripTrailingSlashes(b)
                    \o (IF startsWith(r.url, m) THEN Drop(r.url, Len(m)) ELSE r.url)

\* the method of the outbound call
callMethod(r) ==
    CASE r.route = "raw" -> toUpperCase(r.raw.method)
      [] r.route = "p000_token" -> "POST"
      [] OTHER -> r.method

\* the body attached to the outbound call
callBody(r) ==
    CASE r.route = "raw" ->
            IF r.raw.body # "null" /\ ~isGetOrHead(toUpperCase(r.raw.method))
            THEN rawBody(r.raw.body) ELSE NoBody
      [] r.route = "p000_token" -> rawBody("grant_type=client_credentials")
      [] r.route \in {"js1_cd", "p005_cd"} ->
            IF isGetOrHead(r.method) THEN NoBody
            ELSE IF reqBodyRaw(r) = "buffer" THEN rawBody("obj") ELSE jsonBody("{}")
      [] r.route \in {"js2_cd", "cjs2_cd", "p002_papi", "p002_cd", "p001_papi"} ->
            IF isGetOrHead(r.method) THEN NoBody ELSE jsonBody(reqBodyJson(r))
      [] r.route \in {"p003_papi", "p003_cd"} ->
            IF ~isGetOrHead(r.method) /\ reqBodyJson(r) # "{}"
            THEN jsonBody(reqBodyJson(r)) ELSE NoBody

\* the headers of the outbound call; tok is the OAuth token of the cached-token variants
callHeaders(r, tok) ==
    CASE r.route = "raw" -> pickHeaders(IF r.raw.hasHdrs THEN r.raw.hdrs ELSE r.hdrs)
      [] r.route = "p000_token" ->
            ("content-type" :> <<"application/x-www-form-urlencoded">>)
            @@ ("authorization" :> <<"Basic ", "client">>)
      [] r.route \in {"js1_cd", "p005_cd"} ->
            LET h == ("authorization" :> <<"Bearer ", tok>>)
                     @@ ("accept" :> orElse(r.hdrs, "accept", AcceptJson))
            IN  IF hdr(r, "content-type") # <<>>
                THEN setHdr(h, "content-type", hdr(r, "content-type")) ELSE h
      [] r.route = "js2_cd" ->
            LET h == buildForwardHeaders(r)
            IN  IF ~isGetOrHead(r.method) /\ ~has(h, "content-type")
                THEN setHdr(h, "content-type", JsonCt) ELSE h
      [] r.route \in {"cjs2_cd", "p002_papi"} -> passthroughHeaders(r)
      [] r.route = "p002_cd" ->
            setHdr(passthroughHeaders(r), "content-type", orElse(r.hdrs, "content-type", JsonCt))
      [] r.route = "p001_papi" ->
            LET h == pickForwardHeaders(r)
            IN  IF ~isGetOrHead(r.method) /\ ~isJsonCt(hdr(r, "content-type"))
                THEN setHdr(h, "content-type", JsonCt) ELSE h
      [] r.route \in {"p003_papi", "p003_cd"} ->
            LET h0 == without(r.hdrs, {"host", "content-length", "x-proxy-api-key",
                                       "x-shared-secret"})
                h1 == IF hdr(r, "accept") = <<>> THEN setHdr(h0, "accept", AcceptJson) ELSE h0
            IN  IF callBody(r).has /\ ~isJsonCt(hdr(r, "content-type"))
                THEN setHdr(h1, "content-type", JsonCt) ELSE h1

\* the tunnel client of a variant could not be built from FIXIE_URL
agentFailed(e) == e.FIXIE_URL /\ e.FIXIE_MALFORMED

\* how the outbound calls of a variant leave the process: through the egress
\* tunnel or straight to the upstream host
egress(v, e) ==
    CASE v \in {"cjs2", "p000"} -> "direct"      \* global fetch, no dispatcher installed
      \* setGlobalDispatcher(new ProxyAgent(..)) inside try/catch at startup
      [] v \in {"cjs1", "p001", "p002"} ->
            IF e.FIXIE_URL /\ ~e.FIXIE_MALFORMED THEN "tunnel" ELSE "direct"
      \* dispatcher / agents passed to each call when FIXIE_URL is set
      [] v \in {"p003", "js2"} -> IF e.FIXIE_URL THEN "tunnel" ELSE "direct"
      \* getHttpsAgent() throws without FIXIE_URL
      [] v \in {"js1", "p005"} -> "tunnel"

forwardCall(e, r, tok) ==
    [kind |-> "forward", url |-> targetUrl(e, r), method |-> callMethod(r),
     hdrs |-> callHeaders(r, tok), body |-> callBody(r),
     via |-> egress(variantOf(r.route), e)]

mintCall ==
    [kind |-> "mint", url |-> TokenUrl, method |-> "POST",
     hdrs |-> ("content-type" :> <<"application/x-www-form-urlencoded">>)
              @@ ("authorization" :> <<"Basic ", "client">>),
     body |-> rawBody("grant_type=client_credentials&scope"),
     via |-> "tunnel"]

(***************************************************************************)
(* Upstream responses, and how Express writes them back.                   *)
(*   body tokens: "J" a JSON value, "_" insignificant white space,         *)
(*                "FF" a byte that is not valid UTF-8, "x" other text      *)
(*   content type: <<media type>> or <<media type, "; charset=", name>>,   *)
(*                <<>> when the header is absent                           *)
(***************************************************************************)
NoUp == [status |-> 0, ctype |-> <<>>, body |-> <<>>]
Latin1Text == <<"text/plain", "; charset=", "latin1">>
UpCtypes == {<<>>, JsonCt, Latin1Text, <<"image/png">>}
UpBodies == {<<>>, <<"J">>, <<"J", "_">>, <<"FF">>, <<"x">>}
UpStatuses == {200, 404}

\* a 204 and the answer to a HEAD carry no body
UpResponses(method) ==
    {u \in {[status |-> st, ctype |-> JsonCt, body |-> <<"J">>] : st \in UpStatuses}
           \cup {[status |-> 200, ctype |-> t, body |-> b] : t \in UpCtypes, b \in UpBodies}
           \cup {[status |-> 204, ctype |-> t, body |-> <<>>] : t \in {<<>>, JsonCt}} :
        method = "HEAD" => u.body = <<>>}

\* the upstream's answers in the model: every answer for the requests of the
\* body slice (all methods), the plain 200 for the other slices
repliesTo(r, method) ==
    IF [r EXCEPT !.method = "", !.payload = "", !.hdrs = without(@, {"content-type"})]
         = [baseReq(r.route) EXCEPT !.method = "", !.payload = ""]
    THEN UpResponses(method)
    ELSE {u \in UpResponses(method) : u = [status |-> 200, ctype |-> JsonCt, body |-> <<"J">>]}

\* Response.text(): invalid bytes decode to U+FFFD, which is written back as EF BF BD
utf8Text(b) == [i \in 1..Len(b) |-> IF b[i] = "FF" THEN "FFFD" ELSE b[i]]

\* JSON.parse: white space is dropped; anything but one JSON value throws
JSONparse(text) ==
    LET RECURSIVE strip(_)
        strip(t) == IF t = <<>> THEN <<>>
                    ELSE IF t[1] = "_" THEN strip(Tail(t)) ELSE <<t[1]>> \o strip(Tail(t))
    IN  IF strip(text) = <<"J">> THEN <<"J">> ELSE <<>>

\* Express res.set("content-type", t): a textual type without a charset gets one
resSet(t) ==
    IF Len(t) = 1 /\ t[1] \in {"application/json", "text/plain", "text/html"}
    THEN t \o Utf8 ELSE t

\* Express setCharset(type, "utf-8"), applied by res.send to every string body
setCharset(t) == <<t[1]>> \o Utf8

\* res.send(<string>) with status st and Content-Type header ct already set
sendString(st, ct, text, method) ==
    IF st = 204 THEN [status |-> st, ctype |-> <<>>, body |-> <<>>, error |-> ""]
    ELSE [status |-> st,
          ctype |-> setCharset(IF ct = <<>> THEN <<"text/html">> ELSE ct),
          body |-> IF method = "HEAD" THEN <<>> ELSE text,
          error |-> ""]

\* res.send(<Buffer>)
sendBuffer(st, ct, buf, method) ==
    IF st = 204 THEN [status |-> st, ctype |-> <<>>, body |-> <<>>, error |-> ""]
    ELSE [status |-> st,
          ctype |-> IF ct = <<>> THEN <<"application/octet-stream">> ELSE ct,
          body |-> IF method = "HEAD" THEN <<>> ELSE buf,
          error |-> ""]

\* res.json(value)
sendJson(st, value, method) == sendString(st, resSet(JsonCt), value, method)

\* the status the handler reads off the client's response object: undici's
\* request() resolves to { statusCode, headers, body }, which has no .status
statusRead(route, u) == IF route \in {"p003_papi", "p003_cd"} THEN 0 ELSE u.status

\* the response a handler writes for upstream response u (nothing written before)
relay(r, u) ==
    LET text == utf8Text(u.body)
        st == statusRead(r.route, u)
        orJson == IF u.ctype = <<>> THEN JsonCt ELSE u.ctype
    IN  CASE r.route = "raw" ->
                [status |-> 200, ctype |-> JsonCt \o Utf8,
                 body |-> <<"{ok:true,upstream:{body_preview:">> \o text \o <<"}}">>,
                 error |-> ""]
          [] r.route \in {"cjs2_cd", "p002_papi", "p002_cd"} ->
                sendString(st, resSet(orJson), text, r.method)
          [] r.route \in {"js1_cd", "p005_cd"} ->
                sendBuffer(st, resSet(IF u.ctype = <<>> THEN <<"application/octet-stream">>
                                      ELSE u.ctype), u.body, r.method)
          [] r.route = "js2_cd" -> sendBuffer(st, u.ctype, u.body, r.method)
          [] r.route = "p000_token" -> sendString(st, <<>>, text, r.method)
          [] r.route = "p001_papi" ->
                IF JSONparse(text) # <<>> THEN sendJson(st, JSONparse(text), r.method)
                ELSE sendString(st, <<>>, text, r.method)
          [] r.route \in {"p003_papi", "p003_cd"} ->
                \* res.status(undefined); res.send throws ERR_HTTP_INVALID_STATUS_CODE
                \* when it writes the head; the catch answers 502 with the
                \* Content-Type header set before the throw
                IF st = 0
                THEN [jsonRes(502, "UPSTREAM_REQUEST_FAILED") EXCEPT !.ctype = setCharset(orJson)]
                ELSE sendString(st, orJson, text, r.method)

\* what the transport reports when the forward call fails: e.message
ConnectErrors == {"connect ECONNREFUSED", "getaddrinfo ENOTFOUND"}
TimeoutError == "timeout exceeded"
TransportErrors == ConnectErrors \cup {TimeoutError}

\* the time in ms after which the route's HTTP client gives up on a call that
\* gets no answer, 0 when it waits for ever: axios is given timeout: 30000 by
\* index.js (first program) and part_005 and nothing by axiosRequest (its
\* default is 0, no timeout); undici's fetch and request() are given nothing
\* and keep the library's headersTimeout of 300 s
clientTimeout(route) ==
    CASE route \in {"js1_cd", "p005_cd"} \cup previewRoutes -> 30000
      [] route = "js2_cd" -> 0
      [] OTHER -> 300000

\* res.status(s).json({ error: code, <details> })
errorRes(s, code, details) ==
    [status |-> s, ctype |-> JsonCt \o Utf8,
     body |-> <<"{error:", code>> \o details \o <<"}">>, error |-> code]

\* the response of the handler's catch block for an error with message msg
\* thrown by the call to url
catchRes(route, url, msg) ==
    CASE route = "raw" -> errorRes(500, "RAW_PROXY_ERROR", <<"message:", msg>>)
      [] route = "cjs2_cd" -> errorRes(500, "CD_PROXY_EXCEPTION", <<"message:", msg>>)
      [] route = "p001_papi" -> errorRes(500, "PAPI_PROXY_ERROR", <<"debug:", msg>>)
      [] route = "p002_papi" -> errorRes(500, "papi_exception", <<"message:", msg>>)
      [] route = "p002_cd" -> errorRes(500, "cd_exception", <<"message:", msg>>)
      [] route \in {"p003_papi", "p003_cd"} ->
            errorRes(502, "UPSTREAM_REQUEST_FAILED",
                     <<"targetUrl:">> \o url \o <<"message:", msg>>)
      \* { error: e.message }: the message is the whole body
      [] OTHER -> errorRes(500, msg, <<>>)

(***************************************************************************)
(* The state of one process.                                               *)
(*   variant      the program that runs                                    *)
(*   env          process.env                                              *)
(*   cachedToken  the module-level token cache of js1 and p005 ("" none)   *)
(*   cachedTokenExpMs  the instant the cached token expires                *)
(*   now          Date.now(), in units of 60 seconds                       *)
(*   inflight     token calls of other requests awaiting their answer      *)
(*   pc           idle | mint | forward | done | crashed                   *)
(*   req          the request being handled                                *)
(*   res          the response on the wire (status 0: none yet)            *)
(*   calls        the outbound calls made for req, in order                *)
(*   up           the upstream's answer to the forward call                *)
(***************************************************************************)
VARIABLES variant, env, cachedToken, cachedTokenExpMs, now, inflight,
          pc, req, res, calls, up

vars == <<variant, env, cachedToken, cachedTokenExpMs, now, inflight,
          pc, req, res, calls, up>>

\* the variants that keep a token cache and read the clock
CachedVariants == {"js1", "p005"}

\* cachedTokenExpMs - 60_000: the margin is one unit of the clock
Margin == 1
\* Number(r.data?.expires_in || 900): 900 seconds are fifteen units
DefaultLifetime == 15

\* answers of the token endpoint that carry an access_token; expires_in is in
\* units of 60 seconds, stated says whether the answer has the field at all
TokenReplies ==
    {[access_token |-> "tokA", stated |-> TRUE,  expires_in |-> 2],
     [access_token |-> "tokB", stated |-> FALSE, expires_in |-> 0],
     [access_token |-> "tokC", stated |-> TRUE,  expires_in |-> 1],
     [access_token |-> "tokD", stated |-> TRUE,  expires_in |-> 0]}

\* The text of an access token, character by character.  The first character
\* tells the tokens apart; the lengths lie on both sides of the preview's 25.
tokenLen(tok) ==
    CASE tok = "tokA" -> 26 [] tok = "tokB" -> 25 [] tok = "tokC" -> 3 [] tok = "tokD" -> 27

tokenText(tok) == [i \in 1..tokenLen(tok) |-> IF i = 1 THEN tok ELSE "c"]

\* String.prototype.slice(a, b) for 0 <= a <= b
sliceOf(str, a, b) == SubSeq(str, a + 1, IF b < Len(str) THEN b ELSE Len(str))

\* t.token.slice(0, 25) + "..."
PreviewLen == 25
access_token_preview(tok) == sliceOf(tokenText(tok), 0, PreviewLen) \o <<"...">>

\* res.json({ ok: true, access_token_preview }); part_005 adds expiresIn,
\* which JSON.stringify drops when it is undefined
previewRes(route, tok) ==
    [status |-> 200, ctype |-> JsonCt \o Utf8,
     body |-> <<"{ok:true,">>
              \o (IF route = "p005_preview" THEN <<"expiresIn,">> ELSE <<>>)
              \o <<"access_token_preview:">> \o access_token_preview(tok) \o <<"}">>,
     error |-> ""]

\* const expiresIn = Number(r.data?.expires_in || 900)
expiresIn(t) == IF t.stated /\ t.expires_in # 0 THEN t.expires_in ELSE DefaultLifetime

\* cachedToken && now < cachedTokenExpMs - 60_000
cacheFresh(cache, exp, t) == cache # "" /\ t < exp - Margin

NoReq == [route |-> "", method |-> "", url |-> <<>>, hdrs |-> NoHeaders,
          payload |-> "none", raw |-> NoRaw]

\* The clock and the other requests vary together with the requests that
\* exercise the credential check; every other request is handled at instant 0
\* with no other request about.
quiet == now = 0 /\ inflight = 0
timed == IF req = NoReq THEN TRUE ELSE req \in RequestsOf("auth", req.route)

Init ==
    /\ variant \in Variants
    /\ env \in EnvsOf(variant)
    /\ cachedToken = ""
    /\ cachedTokenExpMs = 0
    /\ now = 0
    /\ inflight = 0
    /\ pc = "idle"
    /\ req = NoReq
    /\ res = NoRes
    /\ calls = <<>>
    /\ up = NoUp

Answer(r) == [res |-> r, calls |-> <<>>, pc |-> "done"]
Await(c, at) == [res |-> NoRes, calls |-> <<c>>, pc |-> at]

\* the forward call of a cached-token route once it holds token tok; new URL()
\* may throw inside the try
forwardWithToken(e, r, tok) ==
    IF targetUrl(e, r) = InvalidUrl THEN Answer(jsonRes(500, "Invalid URL"))
    ELSE Await(forwardCall(e, r, tok), "forward")

(***************************************************************************)
(* The handler of a route from its first line to its first await, for a    *)
(* request that passed the credential check.                               *)
(*   fresh   whether a cached token is still more than 60 s from expiry    *)
(*   strict  whether the installed undici refuses a "connection" request   *)
(*           header (its older releases throw InvalidArgumentError)        *)
(***************************************************************************)
handlerStart(e, r, cache, fresh, strict) ==
    CASE r.route = "raw" ->
            IF r.raw.method = "" \/ r.raw.url = <<>>
            THEN Answer(jsonRes(400, "MISSING_METHOD_OR_URL"))
            ELSE Await(forwardCall(e, r, ""), "forward")
      [] r.route = "p000_token" ->
            IF ~e.CLIENT_CREDS
            THEN Answer(jsonRes(500, "Missing CD_PAPI_PROD_CLIENT_ID or CD_PAPI_PROD_CLIENT_SECRET"))
            ELSE Await(forwardCall(e, r, ""), "forward")
      [] r.route \in {"js1_cd", "p005_cd"} ->
            IF e.CONSUMERDIRECT_BASE_URL = <<>>
            THEN Answer(jsonRes(500, "CONSUMERDIRECT_BASE_URL is not set"))
            ELSE IF ~e.FIXIE_URL THEN Answer(jsonRes(500, "FIXIE_URL is not set"))
            \* new HttpsProxyAgent(fixieUrl) throws inside the try
            ELSE IF agentFailed(e) THEN Answer(jsonRes(500, "Invalid URL"))
            ELSE IF cache # "" /\ fresh
            THEN IF r.route = "js1_cd" THEN forwardWithToken(e, r, cache)
                 \* part_005 returns the bare token string here: tokenResp.ok is undefined
                 ELSE Answer(jsonRes(500, "Token failed"))
            ELSE IF ~e.CLIENT_CREDS
            THEN Answer(jsonRes(500, "CONSUMERDIRECT_CLIENT_ID is not set"))
            ELSE Await(mintCall, "mint")
      [] r.route \in previewRoutes ->
            IF ~e.FIXIE_URL THEN Answer(jsonRes(500, "FIXIE_URL is not set"))
            ELSE IF agentFailed(e) THEN Answer(jsonRes(500, "Invalid URL"))
            ELSE IF cache # "" /\ fresh
            THEN IF r.route = "js1_preview" THEN Answer(previewRes(r.route, cache))
                 \* part_005: t is the bare token string, t.ok is undefined
                 ELSE Answer(jsonRes(500, "Token failed"))
            ELSE IF ~e.CLIENT_CREDS
            THEN Answer(jsonRes(500, "CONSUMERDIRECT_CLIENT_ID is not set"))
            ELSE Await(mintCall, "mint")
      [] r.route \in {"p003_papi", "p003_cd"} ->
            \* getDispatcher(): new ProxyAgent(proxyUrl) throws inside the try
            IF agentFailed(e)
            THEN Answer(catchRes(r.route, targetUrl(e, r), "Invalid URL"))
            ELSE IF strict /\ has(callHeaders(r, ""), "connection")
            THEN Answer(catchRes(r.route, targetUrl(e, r), "invalid connection header"))
            ELSE Await(forwardCall(e, r, ""), "forward")
      [] OTHER -> Await(forwardCall(e, r, ""), "forward")

\* res.status(204).end(), res.status(204).send("")
NoContent == [status |-> 204, ctype |-> <<>>, body |-> <<>>, error |-> ""]

\* the CORS handlers registered ahead of the routes answer an OPTIONS request
\* themselves: app.options("*") of part_001 always, corsLockdown of part_005
\* when ALLOWED_ORIGINS lists an origin
preflight(e, r) ==
    /\ r.method = "OPTIONS"
    /\ \/ r.route = "p001_papi"
       \/ r.route = "p005_cd" /\ e.ALLOWED_ORIGINS

(***************************************************************************)
(* Express dispatches a request to the variant's route: the CORS handler   *)
(* where there is one, the credential check, then the handler up to its    *)
(* first await.                                                            *)
(***************************************************************************)
Receive ==
    /\ pc = "idle"
    /\ \E route \in {x \in Routes : variantOf(x) = variant},
          slice \in {x \in Slices : pairs(env, x) /\ (x = "auth" \/ quiet)},
          fresh \in {cacheFresh(cachedToken, cachedTokenExpMs, now)},
          strict \in {variant = "p003", FALSE} :
        \E r \in RequestsOf(slice, route) :
            /\ LET gate == IF preflight(env, r) THEN Stop(NoContent) ELSE authOf(env, r)
                   h == handlerStart(env, r, cachedToken, fresh, strict)
               IN  /\ req' = r
                   /\ IF ~gate.ret
                      THEN /\ res' = gate.res
                           /\ calls' = <<>>
                           /\ pc' = "done"
                      ELSE /\ res' = IF gate.res # NoRes THEN gate.res ELSE h.res
                           /\ calls' = h.calls
                           /\ pc' = h.pc
    /\ UNCHANGED <<variant, env, cachedToken, cachedTokenExpMs, now, inflight, up>>

\* statuses with which the token endpoint refuses a mint call
TokenFailStatuses == {400, 503}

\* the token endpoint answers the mint call
MintReply ==
    /\ pc = "mint"
    /\ \E outcome \in {"ok", "non2xx", "no_access_token"} :
        \/ /\ outcome = "ok"
           /\ \E t \in TokenReplies :
                /\ cachedToken' = t.access_token
                /\ cachedTokenExpMs' = now + expiresIn(t)
                /\ LET h == IF req.route \in previewRoutes
                            THEN Answer(previewRes(req.route, t.access_token))
                            ELSE forwardWithToken(env, req, t.access_token)
                   IN  /\ res' = h.res
                       /\ calls' = calls \o h.calls
                       /\ pc' = h.pc
        \/ /\ outcome = "non2xx"
           /\ \E st \in TokenFailStatuses : res' = jsonRes(st, "Token failed")
           /\ pc' = "done"
           /\ UNCHANGED <<cachedToken, cachedTokenExpMs, calls>>
        \/ /\ outcome = "no_access_token"
           /\ res' = jsonRes(500, "Token failed")
           /\ pc' = "done"
           /\ UNCHANGED <<cachedToken, cachedTokenExpMs, calls>>
    /\ UNCHANGED <<variant, env, now, inflight, req, up>>

\* a handler that would drop the cached token when its token call fails
mintFailClears ==
    /\ pc = "mint"
    /\ \E msg \in ConnectErrors : res' = catchRes(req.route, TokenUrl, msg)
    /\ pc' = "done"
    /\ cachedToken' = ""
    /\ cachedTokenExpMs' = 0
    /\ UNCHANGED <<variant, env, now, inflight, req, calls, up>>

\* the mint call fails in transport: axios throws into the handler's catch
MintFail ==
    /\ pc = "mint"
    /\ \E msg \in ConnectErrors : res' = catchRes(req.route, TokenUrl, msg)
    /\ pc' = "done"
    /\ UNCHANGED <<variant, env, cachedToken, cachedTokenExpMs, now, inflight, req, calls, up>>

(***************************************************************************)
(* The upstream answers the forward call.  When a response is already on   *)
(* the wire (requireProxyAuth wrote the 401 and the handler went on),      *)
(* res.set throws ERR_HTTP_HEADERS_SENT, the catch block's res.json throws *)
(* it again, and the rejection of the async handler is unhandled.          *)
(***************************************************************************)
UpstreamReply ==
    /\ pc = "forward"
    /\ \E u \in repliesTo(req, calls[Len(calls)].method) :
        /\ up' = u
        /\ IF res # NoRes
           THEN /\ pc' = "crashed"
                /\ UNCHANGED res
           ELSE /\ pc' = "done"
                /\ res' = relay(req, u)
    /\ UNCHANGED <<variant, env, cachedToken, cachedTokenExpMs, now, inflight, req, calls>>

\* a handler that would repeat a failed forward call instead of answering
retryOnFail ==
    /\ pc = "forward"
    /\ calls' = Append(calls, calls[Len(calls)])
    /\ UNCHANGED <<variant, env, cachedToken, cachedTokenExpMs, now, inflight, pc, req, res, up>>

\* the forward call fails in transport (refused, DNS, TLS)
UpstreamFail ==
    /\ pc = "forward"
    /\ IF res # NoRes
       THEN /\ pc' = "crashed"
            /\ UNCHANGED res
       ELSE /\ pc' = "done"
            /\ \E msg \in ConnectErrors :
                res' = catchRes(req.route, calls[Len(calls)].url, msg)
    /\ UNCHANGED <<variant, env, cachedToken, cachedTokenExpMs, now, inflight, req, calls, up>>

\* the exchange is over; the process waits for the next request
Finish ==
    /\ pc = "done"
    /\ pc' = "idle"
    /\ req' = NoReq
    /\ res' = NoRes
    /\ calls' = <<>>
    /\ up' = NoUp
    /\ UNCHANGED <<variant, env, cachedToken, cachedTokenExpMs, now, inflight>>

\* the pending call (mint or forward) got no answer within the client's
\* timeout: the client rejects and the handler's catch block answers
Timeout ==
    /\ pc \in {"mint", "forward"}
    /\ clientTimeout(req.route) > 0
    /\ IF res # NoRes
       THEN /\ pc' = "crashed"
            /\ UNCHANGED res
       ELSE /\ pc' = "done"
            /\ res' = catchRes(req.route, calls[Len(calls)].url, TimeoutError)
    /\ UNCHANGED <<variant, env, cachedToken, cachedTokenExpMs, now, inflight, req, calls, up>>

\* request URLs that no route of part_001 (second program) matches
UnroutedUrls == {<<"/", "x">>, <<"/", "papi">>, <<"/", "papi", "?", "x">>}

\* part_001 (second program) answers a request that none of its routes
\* matches: app.options("*") when it is an OPTIONS request, the final
\* app.use otherwise.  req.route is "fallback".
NotFound ==
    /\ pc = "idle"
    /\ variant = "p001"
    /\ \E u \in UnroutedUrls, m \in Methods :
        /\ req' = [NoReq EXCEPT !.route = "fallback", !.method = m, !.url = u,
                                !.hdrs = HostHdr]
        /\ res' = IF m = "OPTIONS" THEN NoContent
                  ELSE errorRes(404, "NOT_FOUND", <<"path:">> \o u)
    /\ pc' = "done"
    /\ calls' = <<>>
    /\ UNCHANGED <<variant, env, cachedToken, cachedTokenExpMs, now, inflight, up>>

\* the clock advances
Tick ==
    /\ variant \in CachedVariants
    /\ timed
    /\ now < MaxNow
    /\ now' = now + 1
    /\ UNCHANGED <<variant, env, cachedToken, cachedTokenExpMs, inflight,
                   pc, req, res, calls, up>>

\* some authorized request of the variant gets as far as the token call when
\* the cache holds nothing fresh
mints(e, v) ==
    \E route \in {x \in Routes : variantOf(x) = v} :
        \E r \in RequestsOf("auth", route) :
            authOf(e, r).ret /\ handlerStart(e, r, "", FALSE, FALSE).pc = "mint"

\* another request, handled concurrently, finds no fresh token and sends its
\* own token call: getConsumerDirectToken has no single-flight guard
OtherMint ==
    /\ variant \in CachedVariants
    /\ timed
    /\ inflight < MaxOthers
    /\ ~cacheFresh(cachedToken, cachedTokenExpMs, now)
    /\ mints(env, variant)
    /\ inflight' = inflight + 1
    /\ UNCHANGED <<variant, env, cachedToken, cachedTokenExpMs, now,
                   pc, req, res, calls, up>>

\* a getConsumerDirectToken that would give up control between its two
\* assignments: the token is stored, the expiry is not yet
otherStoresTokenOnly ==
    /\ inflight > 0
    /\ inflight' = inflight - 1
    /\ \E t \in TokenReplies : cachedToken' = t.access_token
    /\ UNCHANGED <<variant, env, cachedTokenExpMs, now, pc, req, res, calls, up>>

\* the token endpoint answers the token call of another request: the two
\* assignments to the cache follow each other without an await in between
OtherMintReply ==
    /\ inflight > 0
    /\ inflight' = inflight - 1
    /\ \/ \E t \in TokenReplies :
            /\ cachedToken' = t.access_token
            /\ cachedTokenExpMs' = now + expiresIn(t)
       \/ UNCHANGED <<cachedToken, cachedTokenExpMs>>
    /\ UNCHANGED <<variant, env, now, pc, req, res, calls, up>>

Next ==
    \/ Receive \/ MintReply \/ MintFail \/ UpstreamReply \/ UpstreamFail
    \/ Timeout \/ NotFound \/ Finish
    \/ Tick \/ OtherMint \/ OtherMintReply

Spec == Init /\ [][Next]_vars

\* the remote ends may stay silent for ever; the clients' timers do fire
LiveSpec == Spec /\ WF_vars(Timeout)

(***************************************************************************)
(* Vocabulary of the properties.                                           *)
(***************************************************************************)
\* the configured value a route compares credential header n with
expected(e, route, n) ==
    CASE route = "js2_cd" -> PROXY_KEY(e)
      [] route \in {"js1_cd", "js1_preview", "p002_cd", "p003_cd"} ->
            e.CD_PROXY_INTERNAL_SHARED_SECRET
      [] route = "cjs2_cd" ->
            IF n = "x-shared-secret" THEN e.CD_PROXY_INTERNAL_SHARED_SECRET
            ELSE e.PROXY_API_KEY
      [] OTHER -> e.PROXY_API_KEY

protected(route) == credOf(route) # {}

\* no credential is configured for the route
unsetCredential(e, route) == \A n \in credOf(route) : expected(e, route, n) = <<>>

\* the request carries a configured credential in one of the route's headers
authentic(e, r) ==
    \E n \in credOf(r.route) : expected(e, r.route, n) # <<>> /\ hdr(r, n) = expected(e, r.route, n)

\* the request is being handled, or has been
handling == pc # "idle"
answered == pc \in {"done", "crashed"}

forwards == {i \in 1..Len(calls) : calls[i].kind = "forward"}

\* the routes that map <prefix><rest> onto an upstream base URL
prefixRoutes == {route \in Routes : routeKind(route) \in {"all", "use"}}

\* the part of the request URL after the matched prefix
restOf(r) == Drop(r.url, Len(mount(r.route)))

\* C1: on a route whose credential is configured, a request whose credential
\* header is missing or wrong is answered 401 and no outbound call is made
\* while it is handled.
C1_RejectedWithoutCall ==
    (handling /\ protected(req.route) /\ ~unsetCredential(env, req.route)
        /\ ~authentic(env, req))
    => /\ calls = <<>>
       /\ answered => res.status = 401

\* C2: the scheme, host and base path of every forwarded URL are those of the
\* route's configured base URL, whatever the request carries.
C2_HostFromRouteOnly ==
    \A i \in forwards :
        startsWith(calls[i].url, stripTrailingSlashes(baseUrlOf(env, req.route)))

\* C3: when no credential is configured for a route, no request to it is
\* forwarded upstream.
C3_UnsetNeverForwards ==
    (handling /\ protected(req.route) /\ unsetCredential(env, req.route))
    => forwards = {}

MisconfigCodes ==
    {"PROXY_API_KEY_NOT_SET_ON_SERVER", "PROXY_API_KEY_NOT_CONFIGURED",
     "PROXY_API_KEY_NOT_SET", "CD_PROXY_INTERNAL_SHARED_SECRET_NOT_SET",
     "Server misconfigured: CD_PROXY_INTERNAL_SHARED_SECRET not set",
     "Server misconfigured: PROXY_API_KEY not set"}

\* C4: when no credential is configured for a route, every request to it is
\* answered with a 5xx that names the missing setting, with or without a
\* credential header.
C4_UnsetAnswers500 ==
    (answered /\ protected(req.route) /\ unsetCredential(env, req.route))
    => res.status \in 500..599 /\ res.error \in MisconfigCodes

\* C5: an authenticated request to <prefix><rest> is forwarded to exactly the
\* base URL followed by rest, with a single slash at the join.
C5_BasePlusRest ==
    (req.route \in prefixRoutes /\ (authentic(env, req) \/ ~protected(req.route)))
    => \A i \in forwards :
           calls[i].url = stripTrailingSlashes(baseUrlOf(env, req.route)) \o restOf(req)

\* the upstream has answered a request that was entitled to be forwarded
relayed == answered /\ up # NoUp /\ (authentic(env, req) \/ ~protected(req.route))

\* C6: the status of the response to an authenticated request is the status
\* the upstream answered with.
C6_StatusVerbatim == relayed => res.status = up.status

\* C7: the body of the response to an authenticated request is the upstream's
\* body, byte for byte.
C7_BodyVerbatim == relayed => res.body = up.body

\* C8: when the upstream's response carries a content type, the response to an
\* authenticated request carries exactly that content type.
C8_ContentTypeVerbatim == (relayed /\ up.ctype # <<>>) => res.ctype = up.ctype

\* C9: the forward call made for a GET or HEAD request has no body, whether or
\* not the request had one; so has none the GET or HEAD call that POST /raw
\* makes on the caller's order.
C9_NoBodyOnGetHead ==
    \A i \in forwards :
        (req.method \in {"GET", "HEAD"} \/ calls[i].method \in {"GET", "HEAD"})
        => ~calls[i].body.has

\* C9 witness: a GET or HEAD request that came with a JSON payload has been
\* forwarded, without a body.
C9_Witness ==
    /\ req.method \in {"GET", "HEAD"}
    /\ req.payload = "obj"
    /\ hdr(req, "content-type") = JsonCt
    /\ forwards # {}
    /\ \A i \in forwards : ~calls[i].body.has

\* C10: the headers of a forward call include neither host, connection,
\* content-length nor any credential header of the route.
C10_NoHopOrCredentialHeaders ==
    \A i \in forwards :
        DOMAIN calls[i].hdrs \cap (HopHeaders \cup credOf(req.route)) = {}

\* t occurs in s as a contiguous run of tokens
contains(s, t) == \E k \in 0..(Len(s) - Len(t)) : SubSeq(s, k + 1, k + Len(t)) = t

\* the forward call of the request failed in transport
transportFailed == answered /\ forwards # {} /\ up = NoUp

\* C11: a transport failure of the forward call is answered by the handler
\* with a 500 or 502 whose body carries the transport's error message, the
\* URL that was called and the method.
C11_TransportErrorReported ==
    transportFailed
    => /\ pc = "done"
       /\ res.status \in {500, 502}
       /\ \E msg \in TransportErrors : contains(res.body, <<msg>>)
       /\ \A i \in forwards :
            /\ contains(res.body, calls[i].url)
            /\ contains(res.body, <<calls[i].method>>)

\* C12: a request whose outbound call is pending is eventually answered, also
\* when the remote end never answers: the call's timeout expires and the
\* handler answers with a transport error.
C12_EventuallyAnswered == (pc \in {"mint", "forward"}) ~> answered

\* C13: the credential check lets a request through only if one of its
\* credential headers equals the configured credential character for
\* character.
C13_ExactMatchOnly ==
    (handling /\ protected(req.route) /\ authOf(env, req) = Pass) => authentic(env, req)

\* the order in which a route with several credential headers reads them
credOrder(route) ==
    CASE route = "cjs2_cd" -> <<"x-shared-secret", "x-proxy-api-key">>
      [] route = "js2_cd" -> <<"x-cd-proxy-secret", "x-proxy-api-key", "x-shared-secret">>
      [] OTHER -> <<>>

\* the first credential header, in the route's order, that the request
\* carries with a value; "" when it carries none
firstPresent(r) ==
    LET o == credOrder(r.route)
        present == {i \in 1..Len(o) : hdr(r, o[i]) # <<>>}
    IN  IF present = {} THEN ""
        ELSE o[CHOOSE i \in present : \A j \in present : i <= j]

\* C14: on a route with several credential headers the check lets a request
\* through exactly when the first of them that is present carries the
\* configured credential; the later ones do not matter.
C14_FirstPresentDecides ==
    (handling /\ Len(credOrder(req.route)) >= 2)
    => (authOf(env, req) = Pass
        <=> /\ firstPresent(req) # ""
            /\ expected(env, req.route, firstPresent(req)) # <<>>
            /\ hdr(req, firstPresent(req)) = expected(env, req.route, firstPresent(req)))

\* the routes that send the caller's own authorization upstream (the others
\* send a token they minted, or their client credentials)
callerAuthRoutes == Routes \ ({"js1_cd", "p005_cd", "p000_token"} \cup previewRoutes)

\* C15: a request's authorization header goes upstream unchanged; the carrier
\* header x-cd-authorization becomes the outbound authorization only when the
\* request has no authorization header; and the credential check does not
\* read the carrier header.
C15_CarrierOnlyWithoutAuthorization ==
    (handling /\ req.route \in callerAuthRoutes)
    => /\ \A i \in forwards :
            /\ hdr(req, "authorization") # <<>>
                => /\ has(calls[i].hdrs, "authorization")
                   /\ calls[i].hdrs["authorization"] = hdr(req, "authorization")
            /\ (/\ hdr(req, "x-cd-authorization") # <<>>
                /\ has(calls[i].hdrs, "authorization")
                /\ calls[i].hdrs["authorization"] = hdr(req, "x-cd-authorization"))
                => hdr(req, "authorization") = <<>>
       /\ authOf(env, req) = authOf(env, [req EXCEPT !.hdrs = without(@, {"x-cd-authorization"})])

\* the request may be forwarded: it carries the credential, or none is asked
entitled == authentic(env, req) \/ ~protected(req.route)

\* the JSON value the request body stands for: the payload, or {} without one
bodyValue(r) == IF r.payload = "obj" THEN "obj" ELSE "{}"

\* C16: the forward call of an authenticated request that is not GET or HEAD
\* has a body: the request's JSON value (the document itself or its
\* re-encoding; {} when the request has no payload) when the request's content
\* type is JSON or absent, and the payload unchanged under its own content
\* type otherwise.
C16_BodyAttached ==
    (handling /\ req.route \in prefixRoutes /\ entitled /\ ~isGetOrHead(req.method))
    => \A i \in forwards :
        LET ct == hdr(req, "content-type")
            b  == calls[i].body
        IN  /\ b.has
            /\ (ct = <<>> \/ isJsonCt(ct))
                => b \in {jsonBody(bodyValue(req)), rawBody(bodyValue(req))}
            /\ (ct # <<>> /\ ~isJsonCt(ct) /\ req.payload = "obj")
                => /\ b = rawBody("obj")
                   /\ has(calls[i].hdrs, "content-type")
                   /\ calls[i].hdrs["content-type"] = ct

\* the route has the settings its handler needs before it can call out
configured(e, route) ==
    /\ route \in {"js1_cd", "p005_cd"}
        => e.CONSUMERDIRECT_BASE_URL # <<>> /\ e.FIXIE_URL /\ e.CLIENT_CREDS
    /\ route \in previewRoutes => e.FIXIE_URL /\ e.CLIENT_CREDS
    /\ route = "p000_token" => e.CLIENT_CREDS

\* the token endpoint did not give a token: a mint call and no forward call
mintFailed == calls # <<>> /\ forwards = {}

\* the request carries the configured credential in the header that decides:
\* the route's only credential header, or the first present of several
credentialed(e, r) ==
    LET n == IF credOrder(r.route) = <<>> THEN CHOOSE x \in credOf(r.route) : TRUE
             ELSE firstPresent(r)
    IN  ~protected(r.route)
        \/ (n # "" /\ expected(e, r.route, n) # <<>> /\ hdr(r, n) = expected(e, r.route, n))

\* C17: an authenticated request under a route prefix is forwarded, with its
\* own method, whatever the method (OPTIONS included) and the sub-path.
C17_EveryMethodForwarded ==
    (answered /\ req.route \in prefixRoutes /\ credentialed(env, req)
        /\ configured(env, req.route) /\ ~mintFailed)
    => /\ forwards # {}
       /\ \A i \in forwards : calls[i].method = req.method

\* the status of the response is the one an upstream response came with
copiedFromUpstream == up # NoUp /\ res.status = up.status

\* the status of the response is the one the token endpoint refused with
copiedFromToken == res.error = "Token failed" /\ res.status \in TokenFailStatuses

\* C18: a response whose status the forwarder chose itself has status 401,
\* 500 or 502.
C18_OnlyThreeOwnStatuses ==
    (answered /\ ~copiedFromUpstream /\ ~copiedFromToken) => res.status \in {401, 500, 502}

\* the request without its credential headers
stripped(r) == [r EXCEPT !.hdrs = without(@, credOf(r.route))]

\* C19: the 401 a request with a wrong credential gets is the 401 the same
\* request gets without any credential header: same error code, same body.
C19_Stable401 ==
    (answered /\ protected(req.route) /\ up = NoUp /\ res.status = 401
        /\ res = authOf(env, req).res)
    => res = authOf(env, stripped(req)).res

\* what the handler does with request r in a process that has handled no
\* other request: the module-level token cache is as Init leaves it
alone(e, r, strict) == handlerStart(e, r, "", FALSE, strict)

\* C20: a request that reaches its handler is handled as if no other request
\* had ever been handled: it makes the outbound call it makes when alone,
\* and where it is answered without a call when alone it gets that answer.
C20_NoSharedState ==
    (handling /\ req.route # "fallback" /\ ~preflight(env, req)
        /\ authOf(env, req).ret)
    => \E strict \in {variant = "p003", FALSE} :
        LET h == alone(env, req, strict)
        IN  /\ h.calls # <<>> => calls # <<>> /\ calls[1] = h.calls[1]
            /\ h.calls = <<>> => calls = <<>>
            /\ h.pc = "done" /\ authOf(env, req).res = NoRes => res = h.res

\* the environment with a well-formed tunnel URL configured
tunnelled(e) == [e EXCEPT !.FIXIE_URL = TRUE, !.FIXIE_MALFORMED = FALSE]

\* C21: with FIXIE_URL configured every outbound call goes through the tunnel,
\* also when the tunnel client could not be built; without FIXIE_URL a request
\* that is forwarded when a tunnel is configured is forwarded too, directly.
C21_EgressThroughTunnel ==
    /\ env.FIXIE_URL => \A i \in 1..Len(calls) : calls[i].via = "tunnel"
    /\ (handling /\ ~env.FIXIE_URL /\ req.route # "fallback"
            /\ ~preflight(env, req) /\ authOf(env, req).ret)
       => \E strict \in {variant = "p003", FALSE} :
            handlerStart(tunnelled(env), req, cachedToken, FALSE, strict).calls # <<>>
            => /\ calls # <<>>
               /\ \A i \in 1..Len(calls) : calls[i].via = "direct"

\* C22: at most one forward call is made for an inbound request, whatever the
\* upstream answered and whether or not the call failed, and an upstream
\* response is only ever relayed for a forward call of the request at hand.
C22_SingleShotForward ==
    /\ Cardinality(forwards) <= 1
    /\ up # NoUp => Cardinality(forwards) = 1

\* a non-2xx upstream answer has been relayed, and a failed forward call has
\* been answered, each after its single forward call
C22_Witness ==
    /\ answered
    /\ Cardinality(forwards) = 1
    /\ \/ up # NoUp /\ up.status = 404 /\ res = relay(req, up)
       \/ up = NoUp /\ transportFailed

\* every credential the route accepts is configured, and the request supplies
\* none of them
mismatched(e, r) ==
    \A n \in credOf(r.route) :
        expected(e, r.route, n) # <<>> /\ hdr(r, n) # expected(e, r.route, n)

\* values a deployment may give a secret
AltCreds == {KeyK, KeyK \o <<" ">>, SecretS, <<" ">> \o SecretS}

\* C23: the answer to a request whose credential differs from the configured
\* one is the same under every other configured value that differs from it too.
C23_SecretIndependent ==
    (handling /\ protected(req.route) /\ ~preflight(env, req) /\ mismatched(env, req))
    => \A k \in AltCreds, s \in AltCreds :
        LET e2 == [env EXCEPT !.PROXY_API_KEY = k, !.CD_PROXY_INTERNAL_SHARED_SECRET = s]
        IN  mismatched(e2, req)
            => /\ authOf(e2, req) = authOf(env, req)
               /\ ~authOf(e2, req).ret => res = authOf(e2, req).res

\* the routes that forward with a token from the cache
tokenRoutes == {"js1_cd", "p005_cd"}

\* C24: a request that arrives while the cached token is more than 60 seconds
\* from its expiry, and that would mint a token were the cache empty, makes no
\* token call: it does at once what the minting request does once it has its
\* token, with the cached token as the bearer.
C24_FreshTokenReused ==
    [][(/\ pc = "idle" /\ pc' # "idle"
        /\ req'.route \in tokenRoutes
        /\ cacheFresh(cachedToken, cachedTokenExpMs, now)
        /\ ~preflight(env, req') /\ authOf(env, req').ret
        /\ handlerStart(env, req', "", FALSE, FALSE).pc = "mint")
       => LET h == forwardWithToken(env, req', cachedToken)
          IN  /\ pc' = h.pc /\ res' = h.res /\ calls' = h.calls
              /\ pc' = "forward"
                 => calls'[1].hdrs["authorization"] = <<"Bearer ", cachedToken>>]_vars

\* C25: the 200 of GET /cd-token-preview carries a proper prefix of some
\* token of the token endpoint followed by "...", and the full text of no
\* token.
C25_PreviewNeverWholeToken ==
    (answered /\ req.route \in previewRoutes /\ res.status = 200)
    => /\ \E t \in TokenReplies :
            \E k \in 0..(tokenLen(t.access_token) - 1) :
                contains(res.body, SubSeq(tokenText(t.access_token), 1, k) \o <<"...">>)
       /\ \A t \in TokenReplies : ~contains(res.body, tokenText(t.access_token))

\* C26: no outbound call is in flight for a request whose response has been
\* written, and no handler ends in a write to a response already sent.
C26_OneResponse ==
    /\ pc \in {"mint", "forward"} => res = NoRes
    /\ pc # "crashed"
    /\ answered => res # NoRes

\* the part of the request URL left when the mount point is taken off its
\* start, once, if it is there letter for letter
remainder(r) ==
    IF startsWith(r.url, mount(r.route)) THEN Drop(r.url, Len(mount(r.route))) ELSE r.url

\* C30: the forward call's URL is the upstream base URL (as configured, or
\* without its trailing slashes) followed by the
\* request URL without its leading mount point: a second mount point, one
\* later in the path or the query, and one in other letters all stay.
C30_PrefixStrippedOnce ==
    (req.route \in prefixRoutes /\ entitled)
    => \A i \in forwards :
        LET b == baseUrlOf(env, req.route)
        IN  calls[i].url \in {b \o remainder(req), stripTrailingSlashes(b) \o remainder(req)}

\* the token endpoint gave the token a lifetime of 60 seconds or less
shortLived(tok) ==
    \E t \in TokenReplies : t.access_token = tok /\ t.stated /\ t.expires_in <= Margin

\* C27: a request that arrives when the cached token is within 60 seconds of
\* its expiry or past it, or when the cached token was issued for 60 seconds
\* or less, is not served from the cache: its first call is a token call.
C27_StaleTokenNotUsed ==
    [][(/\ pc = "idle" /\ pc' # "idle"
        /\ req'.route \in tokenRoutes
        /\ ~preflight(env, req') /\ authOf(env, req').ret
        /\ handlerStart(env, req', "", FALSE, FALSE).pc = "mint"
        /\ \/ ~cacheFresh(cachedToken, cachedTokenExpMs, now)
           \/ shortLived(cachedToken))
       => pc' = "mint" /\ calls' = <<mintCall>>]_vars

\* the token cache
cache == <<cachedToken, cachedTokenExpMs>>

\* the step stores the token and the expiry of an answer of the token endpoint
storesReply ==
    \E t \in TokenReplies :
        cachedToken' = t.access_token /\ cachedTokenExpMs' = now + expiresIn(t)

\* the step ends the request's token call without a token
mintFails ==
    pc = "mint" /\ pc' = "done" /\ res'.error \in {"Token failed"} \cup TransportErrors

\* C28: the cache changes only in a step in which a token call (of the request
\* at hand or of a concurrent one) is answered with a token, and then to that
\* answer's token and expiry; a token call that fails, and a request the
\* credential check rejects, leave the cache as it is, and the rejection is
\* the same whatever the cache holds.
C28_CacheWrittenOnlyByMint ==
    [][/\ cache' # cache
          => /\ storesReply
             /\ \/ pc = "mint" /\ pc' # "mint" /\ ~mintFails
                \/ inflight' = inflight - 1
       /\ mintFails => cache' = cache
       /\ (pc = "idle" /\ pc' # "idle" /\ protected(req'.route)
              /\ ~preflight(env, req') /\ ~authOf(env, req').ret)
          => cache' = cache /\ res' = authOf(env, req').res /\ calls' = <<>>]_vars

\* a token call has failed while the cache held a token, and the cache holds
\* it still
C28_Witness ==
    /\ answered /\ calls = <<mintCall>>
    /\ res.error \in {"Token failed"} \cup TransportErrors
    /\ cachedToken # "" /\ inflight = 0

\* C29: whatever the order in which concurrent token calls are answered, the
\* cache is empty or holds the token of one answer of the token endpoint
\* together with the expiry computed from that same answer when it arrived.
C29_TokenAndExpiryTogether ==
    \/ cachedToken = "" /\ cachedTokenExpMs = 0
    \/ \E t \in TokenReplies, at \in 0..now :
        cachedToken = t.access_token /\ cachedTokenExpMs = at + expiresIn(t)

\* the request at hand minted a token and stored it, and the answer to the
\* token call of a concurrent request has replaced it since
C29_Witness ==
    /\ pc = "forward" /\ Len(calls) = 2 /\ calls[1] = mintCall
    /\ cachedToken # ""
    /\ calls[2].hdrs["authorization"] # <<"Bearer ", cachedToken>>

=============================================================================
